---- MODULE Spec2Model ----
(***************************************************************************)
(* SimJS discrete-event simulation kernel: the Environment (clock, binary  *)
(* min-heap of queue items, step, run), Event (callbacks, succeed, fail,   *)
(* trigger), Timeout, Initialize, Process (generator-driven _resume,        *)
(* interrupt) and StopSimulation.callback.                                  *)
(*                                                                         *)
(* One call of the public API is one action.  Everything a call does       *)
(* synchronously (the callbacks fanned by step, the coroutine a callback   *)
(* resumes, the events that coroutine creates) is computed inside the      *)
(* action on a record w, "the world", that holds the program state.        *)
(* Environment.run is a loop of step calls: its position is the variable   *)
(* mode, and while it is "running" no other call can happen (the kernel    *)
(* is single-threaded).                                                    *)
(***************************************************************************)
EXTENDS Integers, Sequences, FiniteSets, TLC

\* ------------------------------------------------------------------ bounds
MaxEvents == 3       \* Event objects that may be constructed (kernel API)
MaxOps == 4          \* API calls made by the user program (kernel API)
MaxQueueEvents == 1  \* Event objects that may be constructed (queue only)
MaxQueueOps == 7     \* API calls made by the user program (queue only)
MaxProcEvents == 6   \* Event objects that may be constructed (process API)
MaxProcOps == 4      \* API calls made by the user program (process API)
MaxFailEvents == 6   \* Event objects that may be constructed (failing coroutines)
MaxFailOps == 5      \* API calls made by the user program (failing coroutines)
MaxResEvents == 4    \* Event objects that may be constructed (resources)
MaxResOps == 7       \* API calls made by the user program (resources)
MaxUseEvents == 10   \* Event objects that may be constructed (resource users)
MaxUseOps == 6       \* API calls made by the user program (resource users)

Delays == {0, 5, 10}          \* delays passed to schedule and Timeout
QueueDelays == {0, 5}         \* delays passed to schedule (queue only)
ProcDelays == {3, 4}          \* delays of the Timeouts a coroutine yields
Causes == {"boom"}            \* causes passed to interrupt
Priorities == {"NORMAL", "URGENT"}
Untils == {5}                 \* numbers passed to run(until)
Capacities == {1, 2}          \* capacities of the Resource
Amounts == {1, 2}             \* amounts passed to get/request and put/release
UseDelays == {3, 5}
MaxCondEvents == 3            \* events created in a run of SpecCond
MaxCondOps == 5               \* user calls in a run of SpecCond
CondDelays == {-1, 0, 5}      \* delays of the Timeouts of SpecCond
MaxInitEvents == 5            \* events created in a run of SpecInit
MaxInitOps == 5               \* user calls in a run of SpecInit
InitDelays == {0, 3}          \* delays of the Timeouts of SpecInit
MaxSchedEvents == 2           \* events created in a run of SpecSched
MaxSchedOps == 4              \* user calls in a run of SpecSched
SchedDelays == {-5, 0, 5}     \* delays passed to schedule in SpecSched

\* ------------------------------------------------------------------ values
Pending == "PENDING"          \* Event._value before the event is triggered
OkTrue == "true"              \* Event._ok
OkFalse == "false"
OkUndefined == "undefined"
NoExc == "none"               \* no exception in flight
NoProg == [body |-> <<>>, catches |-> FALSE]
\* no Resource constructed yet; a Resource is its capacity, users (an array
\* of ones), putQueue and getQueue
NoResource == [capacity |-> 0, users |-> <<>>, putQueue |-> <<>>, getQueue |-> <<>>]

VARIABLES
    now,            \* Environment._now
    items,          \* Heap.items of Environment._queue
    eid,            \* Environment._eid
    ev,             \* the Event objects constructed so far, by identity
    activeProcess,  \* Environment.activeProcess (0 is null)
    resource,       \* the Resource of the environment
    log,            \* history: every callback invocation, in order
    pops,           \* history: every queue item popped by step, in order
    mode,           \* "idle", or "running" inside Environment.run
    until,          \* the argument of the run call in progress or last made
    runFrom,        \* Len(pops) when that run call started
    last,           \* the API call that returned last and how it ended
    ops             \* number of API calls made

vars == <<now, items, eid, ev, activeProcess, resource, log, pops, mode, until, runFrom, last, ops>>

\* ------------------------------------------------------------------ Heap
\* Environment's comparator: time, then priority, then eid.
CompareNoPriority(a, b) ==
    IF a.time # b.time THEN a.time - b.time ELSE a.eid - b.eid

Compare(a, b) ==
    IF a.time # b.time THEN a.time - b.time
    ELSE IF a.priority # b.priority THEN a.priority - b.priority
    ELSE a.eid - b.eid

\* items[i] with the source's 0-based index
At(its, i) == its[i + 1]
Put(its, i, x) == [its EXCEPT ![i + 1] = x]

RECURSIVE HeapifyUpLoop(_, _, _)
HeapifyUpLoop(its, idx, item) ==
    IF idx > 0
    THEN LET parentIdx == (idx - 1) \div 2
             parent == At(its, parentIdx)
         IN IF Compare(item, parent) >= 0 THEN its
            ELSE HeapifyUpLoop(Put(Put(its, parentIdx, item), idx, parent), parentIdx, item)
    ELSE its

HeapifyUp(its) == HeapifyUpLoop(its, Len(its) - 1, At(its, Len(its) - 1))

RECURSIVE HeapifyDownLoop(_, _, _)
HeapifyDownLoop(its, idx, item) ==
    LET length == Len(its)
        leftIdx == 2 * idx + 1
        rightIdx == 2 * idx + 2
        s1 == IF leftIdx < length /\ Compare(At(its, leftIdx), At(its, idx)) < 0
              THEN leftIdx ELSE idx
        smallest == IF rightIdx < length /\ Compare(At(its, rightIdx), At(its, s1)) < 0
                    THEN rightIdx ELSE s1
    IN IF smallest = idx THEN its
       ELSE HeapifyDownLoop(Put(Put(its, idx, At(its, smallest)), smallest, item), smallest, item)

HeapifyDown(its) == HeapifyDownLoop(its, 0, At(its, 0))

HeapPush(its, item) == HeapifyUp(Append(its, item))

\* the items left by Heap.pop (its result is the former items[0])
HeapPop(its) ==
    LET bottom == its[Len(its)]
        shorter == SubSeq(its, 1, Len(its) - 1)
    IN IF Len(shorter) > 0 THEN HeapifyDown(Put(shorter, 0, bottom)) ELSE shorter

\* ------------------------------------------------------------------ world
World == [now |-> now, items |-> items, eid |-> eid, ev |-> ev,
          active |-> activeProcess, res |-> resource, log |-> log, pops |-> pops,
          exc |-> NoExc]

Raise(w, x) == [w EXCEPT !.exc = x]

\* new Event(env): Event's constructor without condition children.  amount
\* and proc are the fields of a GetResource or PutResource.  prog, pc,
\* gst and recv are a Process's generator (its program, position, state and
\* the value its last yield received); born (the time of construction),
\* interrupted (interrupt was called while alive), gout and gval (how the
\* generator's last advance ended and with what value) and saw (the value of
\* env.activeProcess the coroutine read when it last ran) are history.
\* env is the Environment the event belongs to (1: the one modelled here);
\* evaluate, events and count are the condition fields, cv the events of the
\* ConditionValue built for a condition, delay a Timeout's _delay; thrown
\* (history) says that the constructor threw, so that the program holds no
\* reference to the object.
BlankEvent(kind) ==
    [kind |-> kind, callbacks |-> <<>>, cbnull |-> FALSE, ok |-> OkUndefined,
     defused |-> FALSE, value |-> Pending, scheduled |-> FALSE,
     prog |-> NoProg, pc |-> 0, gst |-> "none", recv |-> Pending,
     born |-> 0, interrupted |-> FALSE, gout |-> "none", gval |-> "", saw |-> 0,
     amount |-> 0, proc |-> 0,
     env |-> 1, evaluate |-> "null", events |-> <<>>, count |-> 0, cv |-> <<>>,
     delay |-> 0, thrown |-> FALSE]

NewEventIn(w, kind) == [w EXCEPT !.ev = Append(@, BlankEvent(kind))]
Newest(w) == Len(w.ev)

\* ------------------------------------------------------------------ Environment.schedule
ScheduledTimeAbsolute(t, delay) == delay

ScheduledTime(t, delay) == t + delay

PriorityClass(priority) == IF priority = "URGENT" THEN 0 ELSE 1

Schedule(w, e, priority, delay) ==
    LET item == [time |-> ScheduledTime(w.now, delay), priority |-> PriorityClass(priority),
                 eid |-> w.eid, event |-> e]
    IN [w EXCEPT !.items = HeapPush(@, item), !.eid = @ + 1, !.ev[e].scheduled = TRUE]

\* ------------------------------------------------------------------ Event
IsTriggered(w, e) == w.ev[e].value # Pending

\* a callback: a process's bound _resume, or a function of kind t
ResumeCb(p) == [t |-> "resume", p |-> p]
UserCb(t) == [t |-> t, p |-> 0]

\* callbacks.push(cb)
PushCallback(w, e, cb) == [w EXCEPT !.ev[e].callbacks = Append(@, cb)]

ScheduleIfNot(w, e) == IF w.ev[e].scheduled THEN w ELSE Schedule(w, e, "NORMAL", 0)

Succeed(w, e, value) ==
    IF w.ev[e].value # Pending THEN Raise(w, "Error: already triggered")
    ELSE ScheduleIfNot([w EXCEPT !.ev[e].ok = OkTrue, !.ev[e].value = value], e)

FailNoCheck(w, e, exception) ==
    ScheduleIfNot([w EXCEPT !.ev[e].ok = OkFalse, !.ev[e].value = exception], e)

Fail(w, e, exception) ==
    IF w.ev[e].value # Pending THEN Raise(w, "Error: already triggered")
    ELSE ScheduleIfNot([w EXCEPT !.ev[e].ok = OkFalse, !.ev[e].value = exception], e)

Trigger(w, e, src) ==
    ScheduleIfNot([w EXCEPT !.ev[e].ok = w.ev[src].ok, !.ev[e].value = w.ev[src].value], e)

\* event.defused = value
SetDefused(w, e, value) == [w EXCEPT !.ev[e].defused = value]

\* new Timeout(env, delay, value); the new event is Newest of the result
NewTimeoutNoCheck(w, delay, value) ==
    LET w1 == [NewEventIn(w, "Timeout") EXCEPT !.ev[Len(w.ev) + 1].born = w.now]
        t == Newest(w1)
    IN Schedule([w1 EXCEPT !.ev[t].delay = delay, !.ev[t].ok = OkTrue,
                           !.ev[t].value = value], t, "NORMAL", delay)

NewTimeout(w, delay, value) ==
    LET w1 == [NewEventIn(w, "Timeout") EXCEPT !.ev[Len(w.ev) + 1].born = w.now]
        t == Newest(w1)
    IN IF delay < 0 THEN Raise([w1 EXCEPT !.ev[t].thrown = TRUE], "Error: Negative delay value")
       ELSE Schedule([w1 EXCEPT !.ev[t].delay = delay, !.ev[t].ok = OkTrue,
                                !.ev[t].value = value], t, "NORMAL", delay)

\* StopSimulation.callback(event); event.ok is the getter, which throws while
\* the event is not triggered
StopCallback(w, e) ==
    IF ~IsTriggered(w, e) THEN Raise(w, "Error: value not yet available")
    ELSE IF w.ev[e].ok = OkTrue THEN Raise(w, "StopSimulation")
    ELSE Raise(w, w.ev[e].value)

\* ------------------------------------------------------------------ condition events
\* new Event(env2) for a second Environment env2; nothing else is done with
\* env2
NewForeignEvent(w) == [NewEventIn(w, "Event") EXCEPT !.ev[Len(w.ev) + 1].env = 2]

\* the callbacks a condition c registers: its bound _check and _buildValue
CheckCb(c) == [t |-> "check", p |-> c]
BuildValueCb(c) == [t |-> "buildValue", p |-> c]

\* Event.allEvents and Event.anyEvents
AllEvents(events, count) == Len(events) = count

AnyEventsAsAll(events, count) == Len(events) = count

AnyEvents(events, count) == count > 0 \/ Len(events) = 0

Evaluate(name, events, count) ==
    IF name = "allEvents" THEN AllEvents(events, count) ELSE AnyEvents(events, count)

ConditionValue == "ConditionValue"

\* exception instanceof Error, for the value of an event whose _ok is falsy:
\* the Error it failed with, or 'PENDING' when it was never triggered
IsError(value) == value # Pending

\* c._check(event) after this._count += 1
CheckOn(w, c, e) ==
    IF w.ev[e].ok # OkTrue
    THEN IF IsError(w.ev[e].value) THEN Fail(SetDefused(w, e, TRUE), c, w.ev[e].value)
         ELSE Raise(SetDefused(w, e, TRUE), "TypeError: not an exception")
    ELSE IF Evaluate(w.ev[c].evaluate, w.ev[c].events, w.ev[c].count)
         THEN Succeed(w, c, ConditionValue)
         ELSE w

\* c._check(event)
Check(w, c, e) ==
    IF w.ev[c].value # Pending THEN w
    ELSE CheckOn([w EXCEPT !.ev[c].count = @ + 1], c, e)

\* c._removeCheckCallbacks(): this._check.bind(this) is a new function each
\* time it is evaluated, so includes() finds it in no callback list and no
\* list is filtered
RemoveCheckCallbacks(w, c) == w

\* c._populateValue(value): the children whose callbacks are null
PopulateValue(w, c) ==
    [w EXCEPT !.ev[c].cv = SelectSeq(w.ev[c].events, LAMBDA x : w.ev[x].cbnull)]

\* c._buildValue(event)
BuildValue(w, c, e) ==
    IF w.ev[e].ok = OkTrue
    THEN PopulateValue([RemoveCheckCallbacks(w, c) EXCEPT !.ev[c].value = ConditionValue], c)
    ELSE RemoveCheckCallbacks(w, c)

\* c._initializeCondition() from child i on
RECURSIVE InitializeLoop(_, _, _)
InitializeOn(w, c, i) == IF w.exc # NoExc THEN w ELSE InitializeLoop(w, c, i + 1)

InitializeLoop(w, c, i) ==
    IF i > Len(w.ev[c].events) THEN PushCallback(w, c, BuildValueCb(c))
    ELSE IF w.ev[w.ev[c].events[i]].env # w.ev[c].env
         THEN Raise(w, "Error: Mixing events from different environments is not allowed")
    ELSE IF w.ev[w.ev[c].events[i]].cbnull
         THEN InitializeOn(Check(w, c, w.ev[c].events[i]), c, i)
    ELSE InitializeOn(PushCallback(w, w.ev[c].events[i], CheckCb(c)), c, i)

InitializeCondition(w, c) == InitializeLoop(w, c, 1)

\* the constructor's tail, for the condition c just created
ConditionInit(w, c) ==
    IF Len(w.ev[c].events) > 0 THEN InitializeCondition(w, c) ELSE w

MarkThrown(w, c) == IF w.exc # NoExc THEN [w EXCEPT !.ev[c].thrown = TRUE] ELSE w

\* new Event(env, evaluate, events); a.and(b) is NewCondition(w, "allEvents",
\* <<a, b>>), a.or(b) is NewCondition(w, "anyEvents", <<a, b>>)
NewCondition(w, evaluate, events) ==
    MarkThrown(ConditionInit([NewEventIn(w, "Event") EXCEPT
                                 !.ev[Len(w.ev) + 1].born = w.now,
                                 !.ev[Len(w.ev) + 1].evaluate = evaluate,
                                 !.ev[Len(w.ev) + 1].events = events], Len(w.ev) + 1),
               Len(w.ev) + 1)

\* ------------------------------------------------------------------ Resource
\* new Resource(env, capacity)
NewResource(w, capacity) ==
    IF capacity <= 0 THEN Raise(w, "Error: capacity must be > 0")
    ELSE [w EXCEPT !.res = [capacity |-> capacity, users |-> <<>>,
                            putQueue |-> <<>>, getQueue |-> <<>>]]

\* amount times users.push(1)
PushUsers(users, amount) == users \o [i \in 1..amount |-> 1]
\* amount times users.pop(); pop leaves an empty array empty
PopUsers(users, amount) ==
    SubSeq(users, 1, IF Len(users) > amount THEN Len(users) - amount ELSE 0)

\* queue.splice(idx, 1) with the source's 0-based index
Splice(queue, idx) == SubSeq(queue, 1, idx) \o SubSeq(queue, idx + 2, Len(queue))
\* queue.indexOf(e), 0-based, -1 if absent
IndexOf(queue, e) ==
    IF \E k \in 1..Len(queue) : queue[k] = e
    THEN (CHOOSE k \in 1..Len(queue) :
             queue[k] = e /\ \A j \in 1..(k - 1) : queue[j] # e) - 1
    ELSE -1

\* the result of _doGet or _doPut: the world it leaves and what it returns
Did(w, proceed) == [w |-> w, proceed |-> proceed]

\* Resource._doGet(event)
ResourceDoGetNoCheck(w, event) ==
    Did(Succeed([w EXCEPT !.res.users = PushUsers(@, w.ev[event].amount)], event, "null"),
        TRUE)

ResourceDoGetAnyFree(w, event) ==
    IF w.res.capacity - Len(w.res.users) > 0
    THEN Did(Succeed([w EXCEPT !.res.users = PushUsers(@, w.ev[event].amount)],
                     event, "null"), TRUE)
    ELSE Did(w, FALSE)

ResourceDoGet(w, event) ==
    IF w.res.capacity - Len(w.res.users) >= w.ev[event].amount
    THEN Did(Succeed([w EXCEPT !.res.users = PushUsers(@, w.ev[event].amount)],
                     event, "null"), TRUE)
    ELSE Did(w, FALSE)

\* Resource._doPut(event)
ResourceDoPutNoCheck(w, event) ==
    Did(Succeed([w EXCEPT !.res.users = PopUsers(@, w.ev[event].amount)], event, "null"),
        TRUE)

ResourceDoPutNoPop(w, event) ==
    IF Len(w.res.users) >= w.ev[event].amount
    THEN Did(Succeed(w, event, "null"), TRUE)
    ELSE Did(w, FALSE)

ResourceDoPut(w, event) ==
    IF Len(w.res.users) >= w.ev[event].amount
    THEN Did(Succeed([w EXCEPT !.res.users = PopUsers(@, w.ev[event].amount)],
                     event, "null"), TRUE)
    ELSE Did(w, FALSE)

\* BaseResource._triggerPut: the while loop from idx on, and its body after
\* _doPut(putEvent) ended as r
RECURSIVE TriggerPutLoop(_, _)
TriggerPutOn(r, idx, putEvent) ==
    IF r.w.exc # NoExc THEN r.w
    ELSE IF IsTriggered(r.w, putEvent)
    THEN IF r.proceed
         THEN TriggerPutLoop([r.w EXCEPT !.res.putQueue = Splice(@, idx)], idx)
         ELSE [r.w EXCEPT !.res.putQueue = Splice(@, idx)]
    ELSE IF r.proceed THEN TriggerPutLoop(r.w, idx + 1) ELSE r.w

TriggerPutLoop(w, idx) ==
    IF idx < Len(w.res.putQueue)
    THEN TriggerPutOn(ResourceDoPut(w, At(w.res.putQueue, idx)), idx, At(w.res.putQueue, idx))
    ELSE w

TriggerPut(w) == TriggerPutLoop(w, 0)

\* BaseResource._triggerGet
RECURSIVE TriggerGetLoop(_, _)
TriggerGetOnSkipBlocked(r, idx, getEvent) ==
    IF r.w.exc # NoExc THEN r.w
    ELSE IF IsTriggered(r.w, getEvent)
    THEN TriggerGetLoop([r.w EXCEPT !.res.getQueue = Splice(@, idx)], idx)
    ELSE TriggerGetLoop(r.w, idx + 1)

TriggerGetOn(r, idx, getEvent) ==
    IF r.w.exc # NoExc THEN r.w
    ELSE IF IsTriggered(r.w, getEvent)
    THEN IF r.proceed
         THEN TriggerGetLoop([r.w EXCEPT !.res.getQueue = Splice(@, idx)], idx)
         ELSE [r.w EXCEPT !.res.getQueue = Splice(@, idx)]
    ELSE IF r.proceed THEN TriggerGetLoop(r.w, idx + 1) ELSE r.w

TriggerGetLoop(w, idx) ==
    IF idx < Len(w.res.getQueue)
    THEN TriggerGetOn(ResourceDoGet(w, At(w.res.getQueue, idx)), idx, At(w.res.getQueue, idx))
    ELSE w

TriggerGet(w) == TriggerGetLoop(w, 0)

\* the constructor of PutResource after super(env), on the new event e
PutResourceInitNoCallback(w, e, amount) ==
    IF amount <= 0 THEN Raise(w, "Error: Amount must be > 0")
    ELSE TriggerPut([w EXCEPT !.ev[e].amount = amount, !.ev[e].proc = w.active,
                              !.res.putQueue = Append(@, e)])

PutResourceInit(w, e, amount) ==
    IF amount <= 0 THEN Raise(w, "Error: Amount must be > 0")
    ELSE TriggerPut([w EXCEPT !.ev[e].amount = amount, !.ev[e].proc = w.active,
                              !.res.putQueue = Append(@, e),
                              !.ev[e].callbacks = Append(@, UserCb("triggerGet"))])

\* new PutResource(resource, amount): resource.put, resource.release
NewPutResource(w, amount) ==
    PutResourceInit(NewEventIn(w, "PutResource"), Len(w.ev) + 1, amount)

\* the constructor of GetResource: the request joins getQueue, its callback
\* re-drives the puts, and _triggerPut and _triggerGet are called once each
GetResourceInit(w, e, amount) ==
    IF amount <= 0 THEN Raise(w, "Error: Amount must be > 0")
    ELSE TriggerGet(TriggerPut([w EXCEPT !.ev[e].amount = amount, !.ev[e].proc = w.active,
                                         !.res.getQueue = Append(@, e),
                                         !.ev[e].callbacks = Append(@, UserCb("triggerPut"))]))

\* new GetResource(resource, amount): resource.get, resource.request
NewGetResource(w, amount) ==
    GetResourceInit(NewEventIn(w, "GetResource"), Len(w.ev) + 1, amount)

\* PutResource.cancel()
CancelPutNoRemove(w, e) == w

CancelPutArbitrate(w, e) ==
    IF ~IsTriggered(w, e) /\ IndexOf(w.res.putQueue, e) > -1
    THEN TriggerGet(TriggerPut([w EXCEPT !.res.putQueue = Splice(@, IndexOf(w.res.putQueue, e))]))
    ELSE w

CancelPut(w, e) ==
    IF ~IsTriggered(w, e) /\ IndexOf(w.res.putQueue, e) > -1
    THEN [w EXCEPT !.res.putQueue = Splice(@, IndexOf(w.res.putQueue, e))]
    ELSE w

\* GetResource.cancel()
CancelGet(w, e) ==
    IF ~IsTriggered(w, e) /\ IndexOf(w.res.getQueue, e) > -1
    THEN [w EXCEPT !.res.getQueue = Splice(@, IndexOf(w.res.getQueue, e))]
    ELSE w

\* ------------------------------------------------------------------ generators
\* A coroutine is a program: a sequence of instructions, optionally wrapped
\* as try { body } catch (e) { return e }.
\*   timeout d : yield new Timeout(env, d)     wait e : yield e
\*   ret v     : return v ("$recv": the value the last yield evaluated to)
\*   throw     : throw new Error(...)          bad    : yield 'invalid_value'
\*   goto k    : loop back to instruction k
\*   get a     : req = resource.get(a); yield req
\*   put a     : resource.put(a)
Ins(op, d, e, v) == [op |-> op, d |-> d, e |-> e, v |-> v]
GenResult(w, res, y, val) == [w |-> w, res |-> res, y |-> y, val |-> val]

\* yield of the event just constructed
YieldNewest(w, p, pc) ==
    GenResult([w EXCEPT !.ev[p].pc = pc, !.ev[p].gst = "susp"], "yield", Newest(w), "")

RECURSIVE GenRun(_, _)
GenRun(w, p) ==
    LET g == w.ev[p]
        body == g.prog.body
    IN IF g.pc > Len(body)
       THEN GenResult([w EXCEPT !.ev[p].gst = "done"], "done", 0, "undefined")
       ELSE LET ins == body[g.pc]
            IN CASE ins.op = "timeout" ->
                        YieldNewest(NewTimeout(w, ins.d, "null"), p, g.pc + 1)
                 [] ins.op = "wait" ->
                        GenResult([w EXCEPT !.ev[p].pc = g.pc + 1, !.ev[p].gst = "susp"],
                                  "yield", ins.e, "")
                 [] ins.op = "bad" ->
                        GenResult([w EXCEPT !.ev[p].pc = g.pc + 1, !.ev[p].gst = "susp"],
                                  "bad", 0, "invalid_value")
                 [] ins.op = "ret" ->
                        GenResult([w EXCEPT !.ev[p].gst = "done"], "done", 0,
                                  IF ins.v = "$recv" THEN g.recv ELSE ins.v)
                 [] ins.op = "throw" ->
                        IF g.prog.catches
                        THEN GenResult([w EXCEPT !.ev[p].gst = "done"], "done", 0, "Error: thrown")
                        ELSE GenResult([w EXCEPT !.ev[p].gst = "done"], "throw", 0, "Error: thrown")
                 [] ins.op = "goto" ->
                        GenRun([w EXCEPT !.ev[p].pc = ins.d], p)
                 [] ins.op = "get" ->
                        YieldNewest(NewGetResource(w, ins.d), p, g.pc + 1)
                 [] ins.op = "put" ->
                        GenRun([NewPutResource(w, ins.d) EXCEPT !.ev[p].pc = g.pc + 1], p)

\* history of an advance of p's generator that ended as r
Advanced(r, p) == [r EXCEPT !.w.ev[p].gout = r.res, !.w.ev[p].gval = r.val]

\* generator.next(sent); a coroutine that runs reads env.activeProcess
GenNext(w, p, sent) ==
    IF w.ev[p].gst = "done" THEN Advanced(GenResult(w, "done", 0, "undefined"), p)
    ELSE Advanced(GenRun([w EXCEPT !.ev[p].recv = sent, !.ev[p].saw = w.active], p), p)

\* generator.throw(x): the catch block of a suspended coroutine runs
GenThrow(w, p, x) ==
    IF w.ev[p].gst = "susp" /\ w.ev[p].prog.catches
    THEN Advanced(GenResult([w EXCEPT !.ev[p].gst = "done", !.ev[p].saw = w.active],
                            "done", 0, x), p)
    ELSE Advanced(GenResult([w EXCEPT !.ev[p].gst = "done"], "throw", 0, x), p)

\* ------------------------------------------------------------------ Process

IsAlive(w, p) == w.ev[p].value = Pending

\* the coroutine returned: Process._resume's result.done branches
FinishNoValue(w, p, value) == [w EXCEPT !.ev[p].ok = OkTrue]

Finish(w, p, value) == [w EXCEPT !.ev[p].ok = OkTrue, !.ev[p].value = value]

\* the catch block of Process._resume
CaughtRethrow(w, p, e) == Raise(w, e)

Caught(w, p, e) ==
    Schedule([w EXCEPT !.ev[p].ok = OkFalse, !.ev[p].value = e], p, "NORMAL", 0)

\* the body of _resume's while loop: ResumeLoop advances the coroutine with
\* nextEvent's outcome, ResumeOn acts on what the coroutine did (r)
RECURSIVE ResumeLoop(_, _, _)
ResumeOn(r, p) ==
    CASE r.res = "done" -> Finish(r.w, p, r.val)
      [] r.res = "throw" -> Caught(r.w, p, r.val)
      [] r.res = "bad" -> Caught(r.w, p, "Error: Invalid Yield value")
      [] r.res = "yield" ->
             IF ~r.w.ev[r.y].cbnull
             THEN PushCallback(r.w, r.y, ResumeCb(p))
             ELSE ResumeLoop(r.w, p, r.y)

ResumeLoop(w, p, nextEvent) ==
    ResumeOn(IF w.ev[nextEvent].ok = OkTrue
             THEN GenNext(w, p, w.ev[nextEvent].value)
             ELSE GenThrow(w, p, w.ev[nextEvent].value), p)

\* Process._resume(event); finally resets env.activeProcess
ResumeNoFinally(w, p, event) == ResumeLoop([w EXCEPT !.active = p], p, event)

Resume(w, p, event) ==
    [ResumeLoop([w EXCEPT !.active = p], p, event) EXCEPT !.active = 0]

\* new Initialize(env, process)
NewInitializeNormal(w, p) ==
    LET w1 == NewEventIn(w, "Initialize")
        i == Newest(w1)
    IN Schedule([w1 EXCEPT !.ev[i].callbacks = <<ResumeCb(p)>>, !.ev[i].ok = OkTrue],
                i, "NORMAL", 0)

NewInitialize(w, p) ==
    LET w1 == NewEventIn(w, "Initialize")
        i == Newest(w1)
    IN Schedule([w1 EXCEPT !.ev[i].callbacks = <<ResumeCb(p)>>, !.ev[i].ok = OkTrue],
                i, "URGENT", 0)

\* new Process(env, generator); the process is the event before the newest
NewProcess(w, prog) ==
    LET w1 == NewEventIn(w, "Process")
        p == Newest(w1)
    IN NewInitialize([w1 EXCEPT !.ev[p].prog = prog, !.ev[p].pc = 1,
                                !.ev[p].gst = "start", !.ev[p].born = w.now], p)

\* Process.interrupt(cause); new Interrupt(cause).toString() is the value
InterruptString(cause) ==
    CASE cause = "boom" -> "Interrupt: boom"
      [] cause = "null" -> "Interrupt: null"
InterruptAlways(w, p, cause) ==
    Schedule([w EXCEPT !.ev[p].ok = OkFalse, !.ev[p].value = InterruptString(cause),
                       !.ev[p].interrupted = TRUE], p, "NORMAL", 0)

Interrupt(w, p, cause) ==
    IF IsAlive(w, p)
    THEN Schedule([w EXCEPT !.ev[p].ok = OkFalse, !.ev[p].value = InterruptString(cause),
                            !.ev[p].interrupted = TRUE], p, "NORMAL", 0)
    ELSE w

\* ------------------------------------------------------------------ Environment.step
\* one callback(event) of the for loop
Call(w, e, i) ==
    LET cb == w.ev[e].callbacks[i]
        w1 == [w EXCEPT !.log = Append(@, [e |-> e, i |-> i, pop |-> Len(w.pops)])]
    IN CASE cb.t = "rec" -> w1
         [] cb.t = "defuse" -> SetDefused(w1, e, TRUE)
         [] cb.t = "check" -> Check(w1, cb.p, e)
         [] cb.t = "buildValue" -> BuildValue(w1, cb.p, e)
         [] cb.t = "triggerGet" -> TriggerGet(w1)
         [] cb.t = "triggerPut" -> TriggerPut(w1)
         [] cb.t = "throw" -> Raise(w1, "Error: callback")
         [] cb.t = "stop" -> StopCallback(w1, e)
         [] cb.t = "resume" -> Resume(w1, cb.p, e)

\* for (const callback of event.callbacks): the array iterator sees callbacks
\* pushed while it runs
RECURSIVE Fan(_, _, _)
\* after callback i returned or threw (w)
FanOnKeepGoing(w, e, i) == Fan(w, e, i + 1)

FanOn(w, e, i) == IF w.exc # NoExc THEN w ELSE Fan(w, e, i + 1)

Fan(w, e, i) ==
    IF i > Len(w.ev[e].callbacks) THEN w ELSE FanOn(Call(w, e, i), e, i)

\* step after the for loop: a callback's exception propagates, and a failed
\* event that is not defused throws its value
StepEndIgnoreDefused(w, e) ==
    IF w.exc # NoExc THEN w
    ELSE IF w.ev[e].ok # OkTrue THEN Raise(w, w.ev[e].value)
    ELSE w

StepEndNoRaise(w, e) == w

StepEnd(w, e) ==
    IF w.exc # NoExc THEN w
    ELSE IF w.ev[e].ok # OkTrue /\ ~w.ev[e].defused THEN Raise(w, w.ev[e].value)
    ELSE w

\* step from the pop on
StepItem(w, queueItem) ==
    IF w.ev[queueItem.event].cbnull THEN w
    ELSE StepEnd(Fan(w, queueItem.event, 1), queueItem.event)

StepSilentOnEmpty(w) ==
    IF Len(w.items) = 0 THEN w
    ELSE StepItem([w EXCEPT !.items = HeapPop(@), !.now = At(w.items, 0).time,
                            !.pops = Append(@, At(w.items, 0))], At(w.items, 0))

Step(w) ==
    IF Len(w.items) = 0 THEN Raise(w, "EmptySchedule")
    ELSE StepItem([w EXCEPT !.items = HeapPop(@), !.now = At(w.items, 0).time,
                            !.pops = Append(@, At(w.items, 0))], At(w.items, 0))

\* ------------------------------------------------------------------ Environment.run
NoUntil == [kind |-> "none", n |-> 0]
UntilNumber(t) == [kind |-> "number", n |-> t]
UntilEvent(e) == [kind |-> "event", n |-> e]

\* run's prologue: the checks and the callback pushed on an until event
RunEnterNoCallback(w, u) == w

RunEnter(w, u) ==
    IF u.kind = "event"
    THEN IF w.ev[u.n].cbnull THEN Raise(w, "TypeError: callbacks is null")
         ELSE PushCallback(w, u.n, UserCb("stop"))
    ELSE w

\* the condition of run's while loop
RunContinuesButLast(its) == Len(its) > 1

RunContinues(its) == Len(its) > 0

\* ------------------------------------------------------------------ actions
Commit(w) ==
    /\ now' = w.now
    /\ items' = w.items
    /\ eid' = w.eid
    /\ ev' = w.ev
    /\ activeProcess' = w.active
    /\ resource' = w.res
    /\ log' = w.log
    /\ pops' = w.pops

\* how a call ended; arg is the event the call was made on (0: none)
Outcome(op, arg, w) ==
    [op |-> op, arg |-> arg,
     res |-> IF w.exc = NoExc THEN "returned" ELSE "raised", err |-> w.exc]

\* a call made by the user program outside run; cap and maxOps bound the run
UserCall(op, arg, w, cap, maxOps) ==
    /\ mode = "idle"
    /\ ops < maxOps
    /\ Len(w.ev) <= cap
    /\ Commit(w)
    /\ last' = Outcome(op, arg, w)
    /\ ops' = ops + 1
    /\ UNCHANGED <<mode, until, runFrom>>

Events == 1..Len(ev)
Processes == {e \in Events : ev[e].kind = "Process"}

DoNewEvent(cap, maxOps) ==
    UserCall("new Event", 0, NewEventIn(World, "Event"), cap, maxOps)

DoPushCallback(e, t, cap, maxOps) ==
    /\ ~ev[e].cbnull
    /\ UserCall("callbacks.push", e, PushCallback(World, e, UserCb(t)), cap, maxOps)

DoSchedule(e, priority, delay, cap, maxOps) ==
    UserCall("schedule", e, Schedule(World, e, priority, delay), cap, maxOps)

DoSucceed(e, value, cap, maxOps) ==
    UserCall("succeed", e, Succeed(World, e, value), cap, maxOps)

DoFail(e, exception, cap, maxOps) ==
    UserCall("fail", e, Fail(World, e, exception), cap, maxOps)

DoTrigger(e, src, cap, maxOps) ==
    UserCall("trigger", e, Trigger(World, e, src), cap, maxOps)

DoSetDefused(e, cap, maxOps) ==
    UserCall("defused = true", e, SetDefused(World, e, TRUE), cap, maxOps)

DoNewTimeout(delay, value, cap, maxOps) ==
    UserCall("new Timeout", 0, NewTimeout(World, delay, value), cap, maxOps)

DoNewProcess(prog, cap, maxOps) ==
    UserCall("process", 0, NewProcess(World, prog), cap, maxOps)

DoInterrupt(p, cause, cap, maxOps) ==
    UserCall("interrupt", p, Interrupt(World, p, cause), cap, maxOps)

DoNewResource(capacity, cap, maxOps) ==
    /\ resource = NoResource
    /\ UserCall("new Resource", 0, NewResource(World, capacity), cap, maxOps)

DoNewGetResource(amount, cap, maxOps) ==
    /\ resource # NoResource
    /\ UserCall("get", Len(ev) + 1, NewGetResource(World, amount), cap, maxOps)

DoNewPutResource(amount, cap, maxOps) ==
    /\ resource # NoResource
    /\ UserCall("put", Len(ev) + 1, NewPutResource(World, amount), cap, maxOps)

DoCancel(e, cap, maxOps) ==
    /\ ev[e].kind \in {"GetResource", "PutResource"}
    /\ UserCall("cancel", e,
                IF ev[e].kind = "GetResource" THEN CancelGet(World, e) ELSE CancelPut(World, e),
                cap, maxOps)

DoNewForeignEvent(cap, maxOps) ==
    UserCall("new Event(env2)", 0, NewForeignEvent(World), cap, maxOps)

DoNewCondition(evaluate, events, cap, maxOps) ==
    UserCall("new Condition", Len(ev) + 1, NewCondition(World, evaluate, events), cap, maxOps)

DoStep(cap, maxOps) ==
    UserCall("step", 0, Step(World), cap, maxOps)

\* run(until) up to its loop
DoRun(u, cap, maxOps) ==
    \E w \in {RunEnter(World, u)} :
       /\ mode = "idle"
       /\ ops < maxOps
       /\ Commit(w)
       /\ ops' = ops + 1
       /\ until' = u
       /\ runFrom' = Len(pops)
       /\ IF w.exc = NoExc
          THEN mode' = "running" /\ UNCHANGED last
          ELSE mode' = "idle" /\ last' = Outcome("run", 0, w)

\* one iteration of run's loop; an exception leaves run through catch/throw
DoRunStep(cap) ==
    \E w \in {Step(World)} :
       /\ mode = "running"
       /\ RunContinues(items)
       /\ Len(w.ev) <= cap
       /\ Commit(w)
       /\ IF w.exc = NoExc
          THEN UNCHANGED <<mode, last>>
          ELSE mode' = "idle" /\ last' = Outcome("run", 0, w)
       /\ UNCHANGED <<until, runFrom, ops>>

\* run's loop ends and run returns
DoRunReturn ==
    /\ mode = "running"
    /\ ~RunContinues(items)
    /\ mode' = "idle"
    /\ last' = [op |-> "run", arg |-> 0, res |-> "returned", err |-> NoExc]
    /\ UNCHANGED <<now, items, eid, ev, activeProcess, resource, log, pops, until, runFrom, ops>>

Init ==
    /\ now = 0
    /\ items = <<>>
    /\ eid = 0
    /\ ev = <<>>
    /\ activeProcess = 0
    /\ resource = NoResource
    /\ log = <<>>
    /\ pops = <<>>
    /\ mode = "idle"
    /\ until = NoUntil
    /\ runFrom = 0
    /\ last = [op |-> "new Environment", arg |-> 0, res |-> "returned", err |-> NoExc]
    /\ ops = 0

\* the kernel API: events, callbacks, schedule, Timeout, step, run
Next ==
    \/ DoNewEvent(MaxEvents, MaxOps)
    \/ \E e \in Events, t \in {"rec", "throw", "defuse"} : DoPushCallback(e, t, MaxEvents, MaxOps)
    \/ \E e \in Events, p \in Priorities, d \in Delays : DoSchedule(e, p, d, MaxEvents, MaxOps)
    \/ \E e \in Events : DoSucceed(e, "v1", MaxEvents, MaxOps)
    \/ \E e \in Events : DoFail(e, "E1", MaxEvents, MaxOps)
    \/ \E e \in Events, src \in Events : DoTrigger(e, src, MaxEvents, MaxOps)
    \/ \E e \in Events : DoSetDefused(e, MaxEvents, MaxOps)
    \/ \E d \in Delays : DoNewTimeout(d, "null", MaxEvents, MaxOps)
    \/ DoStep(MaxEvents, MaxOps)
    \/ \E u \in {NoUntil} \cup {UntilNumber(t) : t \in Untils} \cup {UntilEvent(e) : e \in Events} :
          DoRun(u, MaxEvents, MaxOps)
    \/ DoRunStep(MaxEvents)
    \/ DoRunReturn

Spec == Init /\ [][Next]_vars

\* the queue alone: schedule calls, each for the event constructed last,
\* interleaved with step calls
NextQueue ==
    \/ DoNewEvent(MaxQueueEvents, MaxQueueOps)
    \/ \E e \in {Len(ev)} \cap Events, p \in Priorities, d \in QueueDelays :
          DoSchedule(e, p, d, MaxQueueEvents, MaxQueueOps)
    \/ DoStep(MaxQueueEvents, MaxQueueOps)

SpecQueue == Init /\ [][NextQueue]_vars

\* ------------------------------------------------------------------ coroutines
\* yield Timeout(d1); ...; yield Timeout(dn); return v
RECURSIVE TimeoutIns(_)
TimeoutIns(ds) ==
    IF ds = <<>> THEN <<>> ELSE <<Ins("timeout", Head(ds), 0, "")>> \o TimeoutIns(Tail(ds))

PSeq(ds, v) == [body |-> TimeoutIns(ds) \o <<Ins("ret", 0, 0, v)>>, catches |-> FALSE]
\* try { yield Timeout(d) } catch (e) { return e }
PTry(d) == [body |-> <<Ins("timeout", d, 0, "")>>, catches |-> TRUE]
\* v = yield e; return v
PWait(e) == [body |-> <<Ins("wait", 0, e, ""), Ins("ret", 0, 0, "$recv")>>, catches |-> FALSE]
\* while (true) yield Timeout(d)
PLoop(d) == [body |-> <<Ins("timeout", d, 0, ""), Ins("goto", 1, 0, "")>>, catches |-> FALSE]
\* req = resource.get(a); yield req; yield Timeout(d); resource.put(a)
PUse(a, d) == [body |-> <<Ins("get", a, 0, ""), Ins("timeout", d, 0, ""), Ins("put", a, 0, "")>>,
               catches |-> FALSE]
\* yield Timeout(d1); ...; throw new Error(...)
PThrow(ds) == [body |-> TimeoutIns(ds) \o <<Ins("throw", 0, 0, "")>>, catches |-> FALSE]
\* yield Timeout(d1); ...; yield 'invalid_value'; return v
PBad(ds, v) == [body |-> TimeoutIns(ds) \o <<Ins("bad", 0, 0, ""), Ins("ret", 0, 0, v)>>,
                catches |-> FALSE]

DelaySeqs == {<<>>} \cup {<<d>> : d \in ProcDelays}
                    \cup {<<d1, d2>> : d1 \in ProcDelays, d2 \in ProcDelays}

Programs ==
    {PSeq(ds, "done") : ds \in DelaySeqs} \cup {PTry(100), PLoop(5)}
        \cup {PWait(p) : p \in Processes}

\* the process API: processes, interrupt, callbacks on processes, step, run
NextProc ==
    \/ \E prog \in Programs : DoNewProcess(prog, MaxProcEvents, MaxProcOps)
    \/ \E p \in Processes, c \in Causes : DoInterrupt(p, c, MaxProcEvents, MaxProcOps)
    \/ \E p \in Processes : DoPushCallback(p, "rec", MaxProcEvents, MaxProcOps)
    \/ DoStep(MaxProcEvents, MaxProcOps)
    \/ \E u \in {NoUntil} \cup {UntilNumber(t) : t \in Untils} \cup {UntilEvent(p) : p \in Processes} :
          DoRun(u, MaxProcEvents, MaxProcOps)
    \/ DoRunStep(MaxProcEvents)
    \/ DoRunReturn

SpecProc == Init /\ [][NextProc]_vars

\* failing coroutines: processes that throw or yield a value that is not an
\* Event, processes that wait for them, interrupt, defused, step, run
FailPrograms ==
    {PThrow(ds) : ds \in {<<>>, <<3>>}} \cup {PBad(ds, "done") : ds \in {<<>>, <<3>>}}
        \cup {PWait(p) : p \in Processes}

NextFail ==
    \/ \E prog \in FailPrograms : DoNewProcess(prog, MaxFailEvents, MaxFailOps)
    \/ \E p \in Processes, c \in Causes : DoInterrupt(p, c, MaxFailEvents, MaxFailOps)
    \/ \E p \in Processes : DoSetDefused(p, MaxFailEvents, MaxFailOps)
    \/ DoStep(MaxFailEvents, MaxFailOps)
    \/ DoRun(NoUntil, MaxFailEvents, MaxFailOps)
    \/ DoRunStep(MaxFailEvents)
    \/ DoRunReturn

SpecFail == Init /\ [][NextFail]_vars

\* a Resource: get/request, put/release, cancel, step, run
NextRes ==
    \/ \E c \in Capacities : DoNewResource(c, MaxResEvents, MaxResOps)
    \/ \E a \in Amounts : DoNewGetResource(a, MaxResEvents, MaxResOps)
    \/ \E a \in Amounts : DoNewPutResource(a, MaxResEvents, MaxResOps)
    \/ \E e \in Events : DoCancel(e, MaxResEvents, MaxResOps)
    \/ DoStep(MaxResEvents, MaxResOps)
    \/ DoRun(NoUntil, MaxResEvents, MaxResOps)
    \/ DoRunStep(MaxResEvents)
    \/ DoRunReturn

SpecRes == Init /\ [][NextRes]_vars

\* processes that hold the Resource for a while
NextUse ==
    \/ \E c \in Capacities : DoNewResource(c, MaxUseEvents, MaxUseOps)
    \/ \E d \in UseDelays :
          /\ resource # NoResource
          /\ DoNewProcess(PUse(1, d), MaxUseEvents, MaxUseOps)
    \/ DoStep(MaxUseEvents, MaxUseOps)
    \/ DoRun(NoUntil, MaxUseEvents, MaxUseOps)
    \/ DoRunStep(MaxUseEvents)
    \/ DoRunReturn

SpecUse == Init /\ [][NextUse]_vars

\* the events the program holds a reference to, and those of them that
\* belong to this Environment
Refs == {e \in Events : ~ev[e].thrown}
OwnRefs == {e \in Refs : ev[e].env = 1}
\* the children conditions are built over: events that are not conditions
Plain == {e \in Refs : ev[e].evaluate = "null"}
ChildSeqs ==
    {<<>>} \cup {<<a>> : a \in Plain} \cup {p \in Plain \X Plain : p[1] <= p[2]}
\* the events the program succeeds or fails itself: its pending events
Settable == {e \in Plain \cap OwnRefs : ev[e].kind = "Event" /\ ev[e].value = Pending}
\* the error event e is failed with
ErrorOf(e) == IF e = 1 THEN "E1" ELSE "E2"

\* condition events over plain events and Timeouts
NextCond ==
    \/ DoNewEvent(MaxCondEvents, MaxCondOps)
    \/ /\ OwnRefs = Refs
       /\ DoNewForeignEvent(MaxCondEvents, MaxCondOps)
    \/ \E d \in CondDelays : DoNewTimeout(d, "v1", MaxCondEvents, MaxCondOps)
    \/ \E f \in {"allEvents", "anyEvents"}, es \in ChildSeqs :
          DoNewCondition(f, es, MaxCondEvents, MaxCondOps)
    \/ \E e \in Settable : DoSucceed(e, "v1", MaxCondEvents, MaxCondOps)
    \/ \E e \in Settable : DoFail(e, ErrorOf(e), MaxCondEvents, MaxCondOps)
    \/ DoRun(NoUntil, MaxCondEvents, MaxCondOps)
    \/ DoRunStep(MaxCondEvents)
    \/ DoRunReturn

SpecCond == Init /\ [][NextCond]_vars

\* processes created while Timeouts are waiting in the queue
NextInit ==
    \/ \E d \in InitDelays : DoNewTimeout(d, "v1", MaxInitEvents, MaxInitOps)
    \/ \E ds \in {<<>>, <<3>>} : DoNewProcess(PSeq(ds, "done"), MaxInitEvents, MaxInitOps)
    \/ DoStep(MaxInitEvents, MaxInitOps)
    \/ DoRun(NoUntil, MaxInitEvents, MaxInitOps)
    \/ DoRunStep(MaxInitEvents)
    \/ DoRunReturn

SpecInit == Init /\ [][NextInit]_vars

\* explicit schedule calls with any delay
NextSched ==
    \/ DoNewEvent(MaxSchedEvents, MaxSchedOps)
    \/ \E e \in Events, p \in Priorities, d \in SchedDelays :
          DoSchedule(e, p, d, MaxSchedEvents, MaxSchedOps)
    \/ DoStep(MaxSchedEvents, MaxSchedOps)
    \/ DoRun(NoUntil, MaxSchedEvents, MaxSchedOps)
    \/ DoRunStep(MaxSchedEvents)
    \/ DoRunReturn

SpecSched == Init /\ [][NextSched]_vars

\* ------------------------------------------------------------------ properties
\* the order of the queue as the specification states it
Before(a, b) ==
    \/ a.time < b.time
    \/ a.time = b.time /\ a.priority < b.priority
    \/ a.time = b.time /\ a.priority = b.priority /\ a.eid < b.eid

LastPop == pops[Len(pops)]
\* the pops of the run call in progress or just ended
RunPops == (runFrom + 1)..Len(pops)
AfterRun == mode = "idle" /\ last.op = "run"
\* the callback indexes invoked on event e, in order of invocation
FanLog(e) == SelectSeq(log, LAMBDA r : r.e = e)
Invoked(e, i) == \E k \in 1..Len(log) : log[k].e = e /\ log[k].i = i

RECURSIVE SumSeq(_)
SumSeq(ds) == IF ds = <<>> THEN 0 ELSE Head(ds) + SumSeq(Tail(ds))

\* C1: no step (made directly or by run) makes now smaller, whatever was
\* scheduled with delays >= 0 by schedule, Timeout, succeed, fail and trigger.
C1_ClockMonotone == [][now' >= now]_vars

\* two steps were made and the clock advanced between them
C1_Witness == Len(pops) >= 2 /\ pops[1].time < pops[2].time /\ now = pops[2].time

\* C2: the item a step pops is before every other item of the queue in the
\* order (time, priority class, insertion sequence).
C2_PopsMinimum ==
    [][pops' # pops =>
         \A i \in 1..Len(items) :
             items[i] # pops'[Len(pops')] => Before(pops'[Len(pops')], items[i])]_vars

\* an URGENT item was popped while a NORMAL item of the same time that was
\* scheduled before it is still queued, with at least two more items queued
C2_Witness ==
    /\ Len(pops) >= 1
    /\ Len(items) >= 3
    /\ LastPop.priority = 0
    /\ \E i \in 1..Len(items) :
          /\ items[i].time = LastPop.time
          /\ items[i].priority = 1
          /\ items[i].eid < LastPop.eid

\* C3: no callback of an event is invoked twice, and the callbacks of an
\* event are invoked in the order of their registration: the invocations on
\* an event are its callbacks 1, 2, 3, ... in this order.
C3_CallbacksOnceInOrder ==
    \A e \in Events : \A j \in 1..Len(FanLog(e)) : FanLog(e)[j].i = j

\* C4: when run(until = t) with a number t has returned, now = t and no item
\* of a later time was popped by it.
C4_RunUntilNumberStops ==
    (AfterRun /\ last.res = "returned" /\ until.kind = "number") =>
        /\ now = until.n
        /\ \A k \in RunPops : pops[k].time <= until.n

\* C5: run(until = e) does not let the StopSimulation of the callback it
\* attached to e escape: when e was processed as a success, run has returned.
C5_RunSwallowsStop ==
    (AfterRun /\ until.kind = "event" /\ ev[until.n].ok = OkTrue
        /\ \E k \in RunPops : pops[k].event = until.n) =>
        last.res = "returned"

\* C6: during and after run(until = e), a pop of e is the last pop of that
\* run: the loop has ended, and now is the time e was scheduled for.
C6_RunStopsAtUntilEvent ==
    (until.kind = "event" /\ (mode = "running" \/ last.op = "run")) =>
        \A k \in RunPops :
            pops[k].event = until.n =>
                k = Len(pops) /\ now = pops[k].time /\ mode = "idle"

\* run(until = e) ended at e, at time 5, with a later item left in the queue
C6_Witness ==
    /\ AfterRun /\ until.kind = "event"
    /\ Len(pops) > runFrom /\ LastPop.event = until.n
    /\ now = 5
    /\ \E i \in 1..Len(items) : items[i].time = 10

\* the event has a callback that raises
HasRaisingCallback(e) ==
    \E i \in 1..Len(ev[e].callbacks) : ev[e].callbacks[i].t \in {"throw", "stop"}

C8_InterruptCaught ==
    (AfterRun /\ Len(pops) > runFrom
        /\ \A p \in Processes : ev[p].interrupted => ev[p].prog.catches) =>
        \A p \in Processes :
            ev[p].interrupted =>
                /\ last.res = "returned"
                /\ ev[p].ok = OkTrue
                /\ ev[p].value \in {InterruptString(c) : c \in Causes}

\* C9: when run() without until has returned, every callback registered on a
\* process whose coroutine returned has been invoked.
C9_ReturnedProcessFans ==
    (AfterRun /\ last.res = "returned" /\ until.kind = "none") =>
        \A p \in Processes :
            (ev[p].gst = "done" /\ ev[p].ok = OkTrue /\ ~ev[p].interrupted) =>
                \A i \in 1..Len(ev[p].callbacks) : Invoked(p, i)

\* the coroutine of p is yield Timeout(d1); ...; yield Timeout(dn); return v
IsSeqProcess(p) ==
    /\ ev[p].kind = "Process"
    /\ ~ev[p].interrupted
    /\ \E ds \in DelaySeqs : ev[p].prog = PSeq(ds, "done")
DelaysOf(p) == CHOOSE ds \in DelaySeqs : ev[p].prog = PSeq(ds, "done")

\* C10: a process yield Timeout(d1); ...; yield Timeout(dn); return v that has
\* returned is Triggered with ok = true and value v and is not alive; the
\* step in which it returns leaves now = creation time + d1 + ... + dn; and
\* when run() has returned every such process has returned.
C10_Outcome ==
    \A p \in Events :
        IsSeqProcess(p) =>
            /\ ev[p].gst = "done" =>
                  ev[p].ok = OkTrue /\ ev[p].value = "done" /\ ~IsAlive(World, p)
            /\ (AfterRun /\ last.res = "returned") => ev[p].gst = "done"

C10_Timing ==
    \A p \in Events :
        (IsSeqProcess(p) /\ ev[p].gst # "done" /\ ev'[p].gst = "done") =>
            now' = ev[p].born + SumSeq(DelaysOf(p))

C10_ProcessWithTimeouts == [](C10_Outcome) /\ [][C10_Timing]_vars

\* yield Timeout(3); yield Timeout(4); return "done", then run(): now = 7
C10_Witness ==
    /\ AfterRun /\ last.res = "returned"
    /\ Len(ev) = 4 /\ IsSeqProcess(1) /\ DelaysOf(1) = <<3, 4>>
    /\ ev[1].ok = OkTrue /\ ev[1].value = "done" /\ ev[1].born = 0
    /\ now = 7

\* ------------------------------------------------------------------ failing coroutines
\* a step was taken by this transition, and it raised
StepTaken == Len(pops') = Len(pops) + 1
StepRaised == mode' = "idle" /\ last'.res = "raised"

\* the step taken by this transition invoked p's _resume
ResumedIn(p) ==
    \E k \in (Len(log) + 1)..Len(log') :
        ev'[log'[k].e].callbacks[log'[k].i] = ResumeCb(p)

\* the error a coroutine's last advance left the process with
CoroutineError(g) ==
    IF g.gout = "bad" THEN "Error: Invalid Yield value" ELSE g.gval

CoroutineErrors == {"Error: thrown", "Error: Invalid Yield value"}

\* the step that resumed a coroutine which threw or yielded a non-Event:
\* the process is a failure with that error and is in the queue, and the
\* step does not raise unless the event it processed is itself a failure
\* that is not defused
C11_StepContains ==
    StepTaken =>
        \A p \in 1..Len(ev') :
            (ResumedIn(p) /\ ev'[p].gout \in {"throw", "bad"}) =>
                /\ ev'[p].ok = OkFalse
                /\ ev'[p].value = CoroutineError(ev'[p])
                /\ ev'[p].scheduled
                /\ \E k \in 1..Len(items') : items'[k].event = p
                /\ LET e == pops'[Len(pops')].event
                   IN (ev'[e].ok = OkTrue \/ ev'[e].defused) => ~StepRaised

\* a coroutine's error is raised only by a step that processes a process
\* event which carries it and is not defused
C11_RaisedByProcessEvent ==
    (mode = "idle" /\ last.op \in {"step", "run"} /\ last.res = "raised"
        /\ last.err \in CoroutineErrors) =>
        LET e == LastPop.event
        IN /\ ev[e].kind = "Process"
           /\ ev[e].ok = OkFalse
           /\ ev[e].value = last.err
           /\ ~ev[e].defused

\* C11: a coroutine that throws, or yields a value that is not an Event,
\* makes its process Triggered(failure, error) and scheduled without the
\* resuming step raising; the error is raised only by the later step that
\* processes the process event, and only if that event is not defused.
C11_CoroutineFailureContained ==
    [](C11_RaisedByProcessEvent) /\ [][C11_StepContains]_vars

\* both halves happened: a process whose coroutine threw was processed and
\* the step raised its error, and another, defused, was processed quietly
C11_Witness ==
    /\ last.op = "step" /\ last.res = "raised" /\ last.err = "Error: thrown"
    /\ \E k \in 1..Len(pops) :
          /\ ev[pops[k].event].kind = "Process"
          /\ ev[pops[k].event].gout = "bad"
          /\ ev[pops[k].event].defused
          /\ k < Len(pops)

\* ------------------------------------------------------------------ calls
\* this transition is a call of op made outside run, from entry to return
Called(op) == mode = "idle" /\ mode' = "idle" /\ ops' = ops + 1 /\ last'.op = op

\* C12: interrupt(cause) on a process that is not alive (its value is no
\* longer the PENDING sentinel) changes nothing: the process, every other
\* event, the queue, the insertion counter and the clock are as before.
C12_InterruptNotAliveIgnored ==
    [][(Called("interrupt") /\ ev[last'.arg].value # Pending) =>
          /\ last'.res = "returned"
          /\ UNCHANGED <<ev, items, eid, now, activeProcess>>]_vars

\* interrupt was called on a process whose coroutine had returned
C12_Witness ==
    /\ mode = "idle" /\ last.op = "interrupt"
    /\ ev[last.arg].gst = "done" /\ ev[last.arg].ok = OkTrue
    /\ ~ev[last.arg].interrupted

\* C13: env.activeProcess is the process whose coroutine is executing while
\* it executes (every coroutine that has run read itself there), and is
\* null whenever no coroutine executes: after every call, whether the
\* coroutines it resumed yielded, returned or threw.
C13_ActiveProcess ==
    /\ activeProcess = 0
    /\ \A p \in Processes : ev[p].gst # "start" => ev[p].saw = p

\* a step of run resumed a coroutine that threw, and raised
C13_Witness ==
    /\ mode = "idle" /\ last.op = "run" /\ last.res = "raised"
    /\ \E p \in Processes : ev[p].gout = "throw" /\ ev[p].saw = p
    /\ \E p \in Processes : ev[p].gout = "yield" /\ ev[p].saw = p

\* ------------------------------------------------------------------ at most one outcome
\* C14: succeed or fail on an Event that is not Pending throws "already
\* triggered" and leaves the event (ok, value, scheduled flag), every other
\* event and the queue unchanged.
C14_SucceedFailOnce ==
    [][((Called("succeed") \/ Called("fail")) /\ ev[last'.arg].value # Pending) =>
          /\ last'.res = "raised"
          /\ last'.err = "Error: already triggered"
          /\ UNCHANGED <<ev, items, eid, now>>]_vars

\* fail was called on an event that had succeeded
C14_Witness ==
    /\ mode = "idle" /\ last.op = "fail" /\ last.res = "raised"
    /\ ev[last.arg].ok = OkTrue /\ ev[last.arg].value = "v1"

\* C15: trigger(source) on an Event that is already Triggered fails with an
\* already-triggered error and leaves the event's (ok, value) unchanged.
C15_TriggerOnce ==
    [][(Called("trigger") /\ ev[last'.arg].value # Pending) =>
          /\ last'.res = "raised"
          /\ ev'[last'.arg].ok = ev[last'.arg].ok
          /\ ev'[last'.arg].value = ev[last'.arg].value]_vars

\* ------------------------------------------------------------------ failed events
\* the event processed by the step this transition took, and whether all of
\* its callbacks ran (none of them raises)
StepEvent == pops'[Len(pops')].event
AllCallbacksRan ==
    /\ \A i \in 1..Len(ev'[StepEvent].callbacks) :
          ev'[StepEvent].callbacks[i].t \notin {"throw", "stop"}
    /\ \A i \in 1..Len(ev'[StepEvent].callbacks) :
          \E k \in (Len(log) + 1)..Len(log') : log'[k].e = StepEvent /\ log'[k].i = i

\* C16: a step that processes a failed Event whose defused flag is true at
\* the end of fanning (set beforehand or by one of its callbacks), none of
\* whose callbacks raises, returns normally.
C16_DefusedFailureQuiet ==
    [][(StepTaken /\ ev'[StepEvent].ok = OkFalse /\ ev'[StepEvent].defused
            /\ AllCallbacksRan) => ~StepRaised]_vars

\* a step returned after a failed event was defused by its own callback
C16_Witness ==
    /\ mode = "idle" /\ last.op = "step" /\ last.res = "returned"
    /\ Len(pops) > 0
    /\ ev[LastPop.event].ok = OkFalse /\ ev[LastPop.event].defused
    /\ \E i \in 1..Len(ev[LastPop.event].callbacks) :
          ev[LastPop.event].callbacks[i].t = "defuse" /\ Invoked(LastPop.event, i)

\* C17: a step that processes a failed Event whose defused flag is still
\* false after all of its callbacks have run raises the event's failure
\* value, out of step and out of run.
C17_UndefusedFailureRaised ==
    [][(StepTaken /\ ev'[StepEvent].ok = OkFalse /\ ~ev'[StepEvent].defused
            /\ AllCallbacksRan) =>
          /\ StepRaised
          /\ last'.op \in {"step", "run"}
          /\ last'.err = ev'[StepEvent].value]_vars

\* run raised the failure of an event whose callback had run
C17_Witness ==
    /\ mode = "idle" /\ last.op = "run" /\ last.res = "raised" /\ last.err = "E1"
    /\ Len(pops) > 0
    /\ ev[LastPop.event].ok = OkFalse /\ ~ev[LastPop.event].defused
    /\ \E i \in 1..Len(ev[LastPop.event].callbacks) :
          ev[LastPop.event].callbacks[i].t = "rec" /\ Invoked(LastPop.event, i)

\* C18: step on an Environment whose queue is empty throws EmptySchedule and
\* leaves now, the queue and everything else unchanged.
C18_StepOnEmptyQueue ==
    [][(Called("step") /\ Len(items) = 0) =>
          /\ last'.res = "raised"
          /\ last'.err = "EmptySchedule"
          /\ UNCHANGED <<now, items, eid, ev, activeProcess, log, pops>>]_vars

\* step threw EmptySchedule after the clock had advanced
C18_Witness ==
    /\ mode = "idle" /\ last.op = "step" /\ last.err = "EmptySchedule"
    /\ Len(items) = 0 /\ now > 0

\* ------------------------------------------------------------------ Resource
\* C19: for a Resource with capacity c, 0 <= users <= c in every reachable
\* state, after any gets/requests, puts/releases, cancels and steps with
\* positive amounts.
C19_UsersWithinCapacity ==
    resource # NoResource =>
        /\ 0 <= Len(resource.users)
        /\ Len(resource.users) <= resource.capacity

\* the resource is full while a request waits, and a put has been granted
C19_Witness ==
    /\ resource # NoResource
    /\ Len(resource.users) = resource.capacity
    /\ Len(resource.getQueue) > 0
    /\ \E e \in Events : ev[e].kind = "PutResource" /\ ev[e].value # Pending

\* the sum of the amounts of the Triggered events of a kind
RECURSIVE GrantedUpTo(_, _)
GrantedUpTo(kind, n) ==
    IF n = 0 THEN 0
    ELSE GrantedUpTo(kind, n - 1)
            + (IF ev[n].kind = kind /\ ev[n].value # Pending THEN ev[n].amount ELSE 0)

Granted(kind) == GrantedUpTo(kind, Len(ev))

Gets == {e \in Events : ev[e].kind = "GetResource"}
Puts == {e \in Events : ev[e].kind = "PutResource"}
InQueue(queue, e) == \E k \in 1..Len(queue) : queue[k] = e

\* g is granted by this transition
GrantedNow(g) ==
    /\ g \in 1..Len(ev')
    /\ ev'[g].kind = "GetResource"
    /\ ev'[g].value # Pending
    /\ (g <= Len(ev) => ev[g].value = Pending)

\* C21: no get is granted while a get queued earlier on the resource is
\* still pending in the queue: gets are granted in queue order, and a head
\* request that cannot be satisfied blocks every later one, even one that
\* would fit.
C21_GetsInQueueOrder ==
    [][\A g \in 1..Len(ev') :
          GrantedNow(g) =>
              \A h \in 1..(g - 1) :
                  ~(ev'[h].kind = "GetResource" /\ InQueue(resource'.getQueue, h))]_vars

\* a put has been processed and a later get that would fit still waits
\* behind a head that does not
C21_Witness ==
    /\ Len(resource.getQueue) = 2
    /\ ev[resource.getQueue[1]].amount > resource.capacity - Len(resource.users)
    /\ ev[resource.getQueue[2]].amount <= resource.capacity - Len(resource.users)
    /\ mode = "idle"
    /\ Len(pops) > 0 /\ LastPop.event \in Puts

\* Resource(capacity 1), get(1), get(1) and then at most a put(1), the
\* second get not cancelled
BackToBackGets ==
    /\ resource.capacity = 1
    /\ Len(ev) \in {2, 3}
    /\ ev[1].kind = "GetResource" /\ ev[1].amount = 1
    /\ ev[2].kind = "GetResource" /\ ev[2].amount = 1
    /\ Len(ev) = 3 => (ev[3].kind = "PutResource" /\ ev[3].amount = 1)
    /\ ev[2].value # Pending \/ InQueue(resource.getQueue, 2)

WasPopped(e) == \E k \in 1..Len(pops) : pops[k].event = e

\* the first get is Triggered at once and the second stays queued; once the
\* put's event has been processed the second is Triggered and users is 1
C22_Scenario ==
    BackToBackGets =>
        /\ ev[1].value # Pending
        /\ Len(ev) = 2 => (ev[2].value = Pending /\ Len(resource.users) = 1)
        /\ (Len(ev) = 3 /\ WasPopped(3) /\ mode = "idle") =>
               (ev[2].value # Pending /\ ev[2].ok = OkTrue /\ Len(resource.users) = 1)

\* after the step that processes a successful put, the get at the head of
\* the queue, if any, does not fit
C22_HeadGrantedAtPut ==
    (StepTaken /\ ev'[StepEvent].kind = "PutResource" /\ ev'[StepEvent].ok = OkTrue) =>
        (Len(resource'.getQueue) > 0 =>
            ev'[resource'.getQueue[1]].amount > resource'.capacity - Len(resource'.users))

Holding(p) ==
    /\ \E g \in Gets : ev[g].proc = p /\ ev[g].value # Pending
    /\ ~\E q \in Puts : ev[q].proc = p /\ ev[q].value # Pending

\* Resource(capacity 1) and two processes, created at time 0, each doing
\* req = get(1); yield req; yield Timeout(5); put(1)
TwoUsers ==
    /\ resource.capacity = 1
    /\ Cardinality(Processes) = 2
    /\ \A p \in Processes : ev[p].prog = PUse(1, 5) /\ ev[p].born = 0

\* the holding intervals never overlap
C23_NoOverlap ==
    resource.capacity = 1 => Cardinality({p \in Processes : Holding(p)}) <= 1

\* both processes end as successes and run() returns with now = 10
C23_Final ==
    (TwoUsers /\ AfterRun /\ last.res = "returned") =>
        /\ now = 10
        /\ \A p \in Processes : ev[p].ok = OkTrue /\ ev[p].value = "undefined"
        /\ Len(resource.users) = 0

\* a get that waited is granted by the step that processes the put of the
\* process that held the resource; for the two processes that is at time 5
C23_Handover ==
    \A g \in 1..Len(ev) :
        (resource.capacity = 1 /\ GrantedNow(g) /\ ev[g].proc # 0) =>
            /\ StepTaken
            /\ ev'[StepEvent].kind = "PutResource"
            /\ ev'[StepEvent].proc \notin {0, ev[g].proc}
            /\ TwoUsers => now' = 5

C23_Exclusive == C23_NoOverlap /\ C23_Final

\* C23: with Resource(capacity 1) and two processes each doing req = get(1);
\* yield req; yield Timeout(5); put(1), the holding intervals never overlap,
\* the second process acquires exactly when the first one's release is
\* processed (after waiting 5), both end Triggered(success) and run()
\* returns with now = 10.
C23_ResourceContention == [](C23_Exclusive) /\ [][C23_Handover]_vars

\* run() has returned at time 10 after both processes held the resource
C23_Witness ==
    /\ TwoUsers /\ AfterRun /\ last.res = "returned" /\ now = 10
    /\ \A p \in Processes : \E q \in Puts : ev[q].proc = p /\ WasPopped(q)

\* ------------------------------------------------------------------ cancel
\* the queue a get or put waits in, before and after this transition
QueueOf(e) == IF ev[e].kind = "GetResource" THEN resource.getQueue ELSE resource.putQueue
QueueOfNext(e) == IF ev[e].kind = "GetResource" THEN resource'.getQueue ELSE resource'.putQueue

\* cancel on a pending, queued get or put removes it from its queue and
\* touches nothing else
C24_CancelPending ==
    (Called("cancel") /\ ev[last'.arg].value = Pending /\ InQueue(QueueOf(last'.arg), last'.arg)) =>
        /\ QueueOfNext(last'.arg) = Splice(QueueOf(last'.arg), IndexOf(QueueOf(last'.arg), last'.arg))
        /\ ~InQueue(QueueOfNext(last'.arg), last'.arg)
        /\ resource'.users = resource.users
        /\ UNCHANGED <<ev, items, eid, now>>

\* a second cancel, or cancel on a Triggered get or put, changes nothing
C24_CancelAgain ==
    (Called("cancel") /\ ~(ev[last'.arg].value = Pending /\ InQueue(QueueOf(last'.arg), last'.arg))) =>
        UNCHANGED <<ev, resource, items, eid, now>>

\* a cancelled get or put (pending, in no queue) stays so
C24_CancelledStays ==
    \A e \in Gets \cup Puts :
        (ev[e].value = Pending /\ ~InQueue(QueueOf(e), e)) =>
            (ev'[e].value = Pending /\ ~InQueue(QueueOfNext(e), e))

\* C24: cancel() on a pending get or put removes it from its queue and it
\* is never Triggered afterwards; a second cancel, or cancel on a Triggered
\* get or put, changes nothing (queues, users, the event's state).
C24_Cancel ==
    [][C24_CancelPending /\ C24_CancelAgain /\ C24_CancelledStays]_vars

\* a cancelled put stays pending although the users it waited for have
\* arrived with a later get that has been processed
C24_Witness ==
    \E q \in Puts :
        /\ ev[q].value = Pending /\ ~InQueue(resource.putQueue, q)
        /\ Len(resource.users) >= ev[q].amount
        /\ \E g \in Gets : g > q /\ WasPopped(g)

\* ------------------------------------------------------------------ conditions
Conditions == {c \in Events : ev[c].evaluate # "null"}
Children(c) == {ev[c].events[i] : i \in 1..Len(ev[c].events)}
\* condition c has a check callback registered on event x
HasCheck(x, c) == \E i \in 1..Len(ev[x].callbacks) : ev[x].callbacks[i] = CheckCb(c)
\* child x of a condition was processed as a failure
FailedChild(x) == WasPopped(x) /\ ev[x].ok = OkFalse
\* the first pop of a failed child of c
FirstFailedPop(c) ==
    CHOOSE k \in 1..Len(pops) :
        /\ pops[k].event \in Children(c) /\ ev[pops[k].event].ok = OkFalse
        /\ \A j \in 1..(k - 1) : ~(pops[j].event \in Children(c) /\ ev[pops[j].event].ok = OkFalse)

\* C25: an all-condition over n >= 1 children is Triggered(success) if and
\* only if every child has been processed as a success; once a child has been
\* processed as a failure the condition is Triggered(failure) with the value
\* of the first failed child processed.
C25_AllCondition ==
    \A c \in Conditions :
        (ev[c].evaluate = "allEvents" /\ Len(ev[c].events) >= 1 /\ ~ev[c].thrown) =>
            /\ (ev[c].ok = OkTrue) <=>
                  (\A x \in Children(c) : WasPopped(x) /\ ev[x].ok = OkTrue)
            /\ (\E x \in Children(c) : FailedChild(x)) =>
                  (ev[c].ok = OkFalse /\ ev[c].value = ev[pops[FirstFailedPop(c)].event].value)

\* C26: a condition over an empty set of children is Triggered(success) from
\* its construction on, for the any and for the all predicate.
C26_EmptyCondition ==
    \A c \in Conditions :
        Len(ev[c].events) = 0 => (ev[c].ok = OkTrue /\ ev[c].value # Pending)

\* C27: the step that processes a failed child of a condition marks the
\* child defused, whether or not the condition was already Triggered, and
\* does not raise the child's failure.
C27_FailedChildDefused ==
    [][(StepTaken /\ ev'[StepEvent].ok = OkFalse
           /\ \E c \in Conditions : HasCheck(StepEvent, c)) =>
          (ev'[StepEvent].defused /\ ~(StepRaised /\ last'.err = ev'[StepEvent].value))]_vars

\* the step that processes a successful child of a pending any-condition
\* triggers the condition as a success and schedules it at the child's time
C28_FirstSuccess ==
    StepTaken =>
        \A c \in Conditions :
            (ev[c].evaluate = "anyEvents" /\ HasCheck(StepEvent, c)
                /\ ev[c].value = Pending /\ ev'[StepEvent].ok = OkTrue) =>
                /\ ev'[c].ok = OkTrue /\ ev'[c].value # Pending
                /\ now' = pops'[Len(pops')].time
                /\ \E k \in 1..Len(items') : items'[k].event = c /\ items'[k].time = now'

\* the outcome of a Triggered condition does not change
C28_OutcomeKept ==
    \A c \in Conditions :
        ev[c].ok # OkUndefined => (ev'[c].ok = ev[c].ok /\ ev'[c].value = ev[c].value)

\* a Timeout child of an any-condition is processed no later than its delay
\* after the condition's construction, and the condition is Triggered then
C28_TimeoutBound ==
    StepTaken =>
        \A c \in Conditions :
            (ev[c].evaluate = "anyEvents" /\ HasCheck(StepEvent, c)
                /\ ev[StepEvent].kind = "Timeout") =>
                (ev'[c].value # Pending /\ now' <= ev[c].born + ev[StepEvent].delay)

\* C28: an any-condition a.or(b) becomes Triggered(success) at the step that
\* processes the first of its children to succeed, at that child's time (so
\* a.or(Timeout(d)) is Triggered no later than d after its construction), and
\* its outcome does not change when the other child is processed later.
C28_AnyCondition ==
    [][C28_FirstSuccess /\ C28_OutcomeKept /\ C28_TimeoutBound]_vars

\* a.or(Timeout(5)): a succeeded and was processed first, the condition was
\* processed as a success, and the Timeout was processed after it
C28_Witness ==
    \E c \in Conditions : \E a \in Children(c) : \E t \in Children(c) :
        /\ ev[c].evaluate = "anyEvents" /\ ev[c].ok = OkTrue
        /\ ev[a].kind = "Event" /\ ev[t].kind = "Timeout" /\ ev[t].delay = 5
        /\ HasCheck(a, c) /\ HasCheck(t, c)
        /\ \E i \in 1..Len(pops) : \E j \in 1..Len(pops) : \E k \in 1..Len(pops) :
              i < j /\ j < k /\ pops[i].event = a /\ pops[j].event = c /\ pops[k].event = t

\* C29: constructing a condition over events that do not all belong to the
\* condition's Environment fails synchronously and leaves every child's
\* callback list as it was.
C29_MixedLeavesChildren ==
    [][(Called("new Condition")
           /\ \E x \in {ev'[last'.arg].events[i] : i \in 1..Len(ev'[last'.arg].events)} :
                 ev[x].env # ev'[last'.arg].env) =>
          (last'.res = "raised" /\ \A x \in Events : ev'[x] = ev[x])]_vars

\* ------------------------------------------------------------------ Timeout
Timeouts == {t \in Events : ev[t].kind = "Timeout"}
InItems(e) == \E k \in 1..Len(items) : items[k].event = e

\* a Timeout that was constructed waits in the queue, and now has not
\* passed its time, until it is popped; one whose construction threw is
\* never in the queue
C30_TimeoutWaits ==
    \A t \in Timeouts :
        /\ (~ev[t].thrown /\ ~WasPopped(t)) =>
              (InItems(t) /\ now <= ev[t].born + ev[t].delay)
        /\ ev[t].thrown => (~InItems(t) /\ ~WasPopped(t) /\ ev[t].value = Pending)

\* the step that pops a Timeout fans its callbacks at its creation time plus
\* its delay, as a success with its value; a negative delay makes the
\* constructor throw without touching the queue
C30_TimeoutStep ==
    /\ (StepTaken /\ ev[StepEvent].kind = "Timeout") =>
          /\ now' = ev[StepEvent].born + ev[StepEvent].delay
          /\ ev[StepEvent].delay = 0 => now' = now
          /\ ev'[StepEvent].ok = OkTrue /\ ev'[StepEvent].value = "v1"
          /\ \A i \in 1..Len(ev[StepEvent].callbacks) :
                \E k \in (Len(log) + 1)..Len(log') : log'[k].e = StepEvent /\ log'[k].i = i
    /\ (Called("new Timeout") /\ last'.res = "raised") =>
          (ev'[Len(ev')].thrown /\ UNCHANGED <<items, eid, now>>)
    /\ (Called("new Timeout") /\ last'.res = "returned") =>
          (ev'[Len(ev')].delay >= 0 /\ ~ev'[Len(ev')].thrown)

ProcessOf(i) == ev[i].callbacks[1].p
StepItemPopped == pops'[Len(pops')]

\* the step that pops a process's Initialize runs the coroutine for the
\* first time, at the time the process was created
C31_StartsAtBirth ==
    (StepTaken /\ ev[StepEvent].kind = "Initialize") =>
        /\ now' = ev[ProcessOf(StepEvent)].born
        /\ ev[ProcessOf(StepEvent)].gst = "start"
        /\ ev'[ProcessOf(StepEvent)].gst # "start"

\* when a NORMAL item is popped, every process created at the item's time
\* has started
C31_BeforeNormal ==
    (StepTaken /\ StepItemPopped.priority = PriorityClass("NORMAL")) =>
        \A p \in Processes : ev[p].born = StepItemPopped.time => ev[p].gst # "start"

\* C31: a process's coroutine first runs at the time the process was
\* created, before any NORMAL event scheduled for that time is fanned,
\* including NORMAL events scheduled before the process was created.
C31_InitializeFirst == [][C31_StartsAtBirth /\ C31_BeforeNormal]_vars

\* a process created at time 3 has started while a Timeout scheduled for
\* time 3 before the process was created is still in the queue
C31_Witness ==
    \E p \in Processes : \E k \in 1..Len(pops) : \E j \in 1..Len(items) :
        /\ ev[p].born = 3 /\ ev[p].gst # "start"
        /\ ev[pops[k].event].kind = "Initialize" /\ ProcessOf(pops[k].event) = p
        /\ items[j].time = 3 /\ items[j].priority = PriorityClass("NORMAL")
        /\ items[j].eid < pops[k].eid /\ ev[items[j].event].kind = "Timeout"

\* ------------------------------------------------------------------ processed events
\* C32: after step has fanned an event's callbacks the event is Processed
\* (its callback list is released and stays so, and the event does not
\* return to Pending), and a step that pops an event that was popped before
\* invokes no callback.
C32_ProcessedAfterFan ==
    [][/\ (StepTaken /\ ~StepRaised) => ev'[StepEvent].cbnull
       /\ (StepTaken /\ WasPopped(StepEvent)) => log' = log
       /\ \A e \in Events : ev[e].cbnull => (ev'[e].cbnull /\ ev'[e].value # Pending)]_vars

\* ------------------------------------------------------------------ scheduled once
\* C33: an event is in the queue at most once, whichever calls schedule it.
C33_ScheduledOnce ==
    \A j \in 1..Len(items) : \A k \in 1..Len(items) :
        items[j].event = items[k].event => j = k

\* ------------------------------------------------------------------ triggered processes
\* C34: once a process is Triggered its coroutine is not advanced again
\* and its (ok, value) does not change.
C34_TriggeredProcessFrozen ==
    [][\A p \in Processes :
          ev[p].value # Pending =>
              /\ ev'[p].ok = ev[p].ok /\ ev'[p].value = ev[p].value
              /\ ev'[p].pc = ev[p].pc /\ ev'[p].gst = ev[p].gst]_vars

\* ------------------------------------------------------------------ yielding a processed event
\* a process was suspended on event y by this transition: its _resume was
\* pushed on y's callbacks
SuspendedOn(y) ==
    /\ Len(ev'[y].callbacks) > Len(ev[y].callbacks)
    /\ ev'[y].callbacks[Len(ev'[y].callbacks)].t = "resume"

\* C35: a process that yields an event that an earlier step has processed
\* is not suspended on it.
C35_ProcessedEventNotAwaited ==
    [][\A y \in Events : (StepTaken /\ WasPopped(y)) => ~SuspendedOn(y)]_vars

\* ------------------------------------------------------------------ ConditionValue
\* C36: when a condition that succeeded is processed, its ConditionValue
\* holds exactly its children that have been processed by then, in child
\* order.
C36_ConditionValue ==
    [][(StepTaken /\ ev[StepEvent].evaluate # "null" /\ ~ev[StepEvent].thrown
           /\ ev[StepEvent].ok = OkTrue) =>
          /\ ev'[StepEvent].value = ConditionValue
          /\ ev'[StepEvent].cv = SelectSeq(ev[StepEvent].events, LAMBDA x : WasPopped(x))]_vars

\* ------------------------------------------------------------------ schedule
\* C37: a schedule call either fails, leaving the queue, the event's
\* scheduled flag and now unchanged, or adds an item whose time is not
\* earlier than now; no item in the queue is earlier than now.
C37_NoPastItems ==
    [][Called("schedule") =>
          /\ last'.res = "raised" => UNCHANGED <<items, eid, ev, now>>
          /\ \A k \in 1..Len(items') : items'[k].time >= now']_vars

\* ------------------------------------------------------------------ raising callbacks
\* the first callback of e that raises
FirstRaising(e) ==
    CHOOSE i \in 1..Len(ev[e].callbacks) :
        /\ ev[e].callbacks[i].t \in {"throw", "stop"}
        /\ \A j \in 1..(i - 1) : ev[e].callbacks[j].t \notin {"throw", "stop"}

\* C38: if a callback raises during fanning, the callbacks after it are not
\* invoked in that step and the error propagates out of step and out of
\* run, with the item removed from the queue and now advanced to its time.
C38_RaisingCallbackAborts ==
    [][(StepTaken /\ ~ev[StepEvent].cbnull /\ HasRaisingCallback(StepEvent)) =>
          /\ Len(log') = Len(log) + FirstRaising(StepEvent)
          /\ \A j \in 1..FirstRaising(StepEvent) :
                log'[Len(log) + j].e = StepEvent /\ log'[Len(log) + j].i = j
          /\ StepRaised /\ last'.op \in {"step", "run"}
          /\ (mode = "running" => last'.op = "run")
          /\ (ev[StepEvent].callbacks[FirstRaising(StepEvent)].t = "throw"
                 => last'.err = "Error: callback")
          /\ now' = StepItemPopped.time
          /\ Len(items') = Len(items) - 1
          /\ \A k \in 1..Len(items') : items'[k].eid # StepItemPopped.eid]_vars

\* run has raised the error of a callback, and a callback registered after
\* the raising one has not been invoked
C38_Witness ==
    /\ AfterRun /\ last.res = "raised" /\ last.err = "Error: callback"
    /\ Len(pops) = 1 /\ now = LastPop.time /\ now > 0
    /\ \E i \in 1..Len(ev[LastPop.event].callbacks) :
          /\ ev[LastPop.event].callbacks[i].t = "throw" /\ Invoked(LastPop.event, i)
          /\ \E j \in (i + 1)..Len(ev[LastPop.event].callbacks) : ~Invoked(LastPop.event, j)

\* ------------------------------------------------------------------ oversized gets
\* the gets that ask for more than the capacity
Oversized == {g \in Gets : ev[g].amount > resource.capacity}

\* a get that asks for more than the capacity is not granted
C39_NeverGranted == \A g \in Oversized : ev[g].value = Pending

\* while an oversized get stays in the get queue, no get queued after it
\* (created after it) is granted
C39_Blocks ==
    \A g \in Oversized :
        InQueue(resource'.getQueue, g) =>
            \A h \in (g + 1)..Len(ev') :
                (ev'[h].kind = "GetResource" /\ (h \in Events => ev[h].value = Pending)) =>
                    ev'[h].value = Pending

\* C39: a get whose amount exceeds the capacity is never granted, and as
\* long as it stays in the get queue no get queued after it is granted,
\* whatever puts are processed.
C39_OversizedGet == [](C39_NeverGranted) /\ [][C39_Blocks]_vars

\* the resource is empty after a put was processed, and a get for one unit
\* waits behind an oversized get
C39_Witness ==
    \E g \in Oversized : \E h \in Gets : \E q \in Puts :
        /\ InQueue(resource.getQueue, g) /\ InQueue(resource.getQueue, h) /\ h > g
        /\ ev[h].amount <= resource.capacity /\ Len(resource.users) = 0
        /\ WasPopped(q) /\ q > h

\* ------------------------------------------------------------------ cancel runs no arbitration
\* cancel changes nothing but the queue of the cancelled event
C40_CancelOnly ==
    Called("cancel") =>
        /\ resource'.users = resource.users /\ resource'.capacity = resource.capacity
        /\ UNCHANGED <<ev, items, eid, now, pops, log>>
        /\ IF ev[last'.arg].kind = "GetResource"
           THEN resource'.putQueue = resource.putQueue
           ELSE resource'.getQueue = resource.getQueue

\* a get is granted only by a get call or by the step that processes a put
C40_GrantedBy ==
    \A g \in 1..Len(ev') :
        GrantedNow(g) =>
            \/ Called("get")
            \/ StepTaken /\ ev[StepEvent].kind = "PutResource"

\* C40: cancel() changes only the cancelled event's queue membership (users
\* and every event's state are unchanged, no arbitration is run), so a get
\* that becomes satisfiable by the cancellation of the request ahead of it
\* stays pending until the next get is issued or the next put is processed.
C40_CancelNoArbitration == [][C40_CancelOnly /\ C40_GrantedBy]_vars

\* right after the cancellation of the head request, the get behind it is
\* the head, fits into the free capacity and is still pending
C40_Witness ==
    /\ mode = "idle" /\ last.op = "cancel" /\ last.arg \in Gets
    /\ ev[last.arg].value = Pending /\ ~InQueue(resource.getQueue, last.arg)
    /\ Len(resource.getQueue) > 0
    /\ resource.getQueue[1] > last.arg
    /\ ev[resource.getQueue[1]].value = Pending
    /\ resource.capacity - Len(resource.users) >= ev[resource.getQueue[1]].amount

====
